---- MODULE Spec2Model ----
(***************************************************************************)
(* A model of the IPL auction engine: models/auction.py (AuctionSimulator) *)
(* and models/team.py (Team, TeamCapabilities).                            *)
(*                                                                         *)
(* Money is counted in hundredths of a crore (1 = 0.01 Cr = 1 lakh), the   *)
(* resolution to which the code rounds every price (round(x, 2)).  The     *)
(* valuation is computed in exact rational arithmetic <<num, den>> and     *)
(* rounded to the hundredth at the end, as the code does.                  *)
(***************************************************************************)
EXTENDS Integers, Sequences, FiniteSets, TLC

(***************************************************************************)
(* Bounds of the model.                                                    *)
(***************************************************************************)
\* Number of players in the auction pool handed to AuctionSimulator.
MaxPlayers == 2

\* The number of direct calls of Team.can_bid.
MaxCalls == 2

(***************************************************************************)
(* Generic helpers.                                                        *)
(***************************************************************************)
\* Python's None.
None == "None"

\* final_price of a record that has no price (Python None).
NoPrice == -1

Max(a, b) == IF a >= b THEN a ELSE b

RECURSIVE GCD(_, _)
GCD(a, b) == IF b = 0 THEN a ELSE GCD(b, a % b)

\* The rational n/d in lowest terms.
Reduce(n, d) == LET g == GCD(n, d) IN <<n \div g, d \div g>>

\* f * (a/b) for a rational f.
Mul(f, a, b) == Reduce(f[1] * a, f[2] * b)

\* f <= g for non-negative rationals, compared by integer part first.
FracLeq(f, g) ==
    LET fi == f[1] \div f[2]
        gi == g[1] \div g[2]
    IN  IF fi # gi THEN fi < gi
        ELSE (f[1] % f[2]) * g[2] <= (g[1] % g[2]) * f[2]

FracMax(f, g) == IF FracLeq(f, g) THEN g ELSE f

FracMin(f, g) == IF FracLeq(f, g) THEN f ELSE g

\* round(x) of a non-negative rational to the nearest integer, ties to even.
Round(f) ==
    LET q == f[1] \div f[2]
        r == f[1] % f[2]
    IN  IF 2 * r < f[2] THEN q
        ELSE IF 2 * r > f[2] THEN q + 1
        ELSE IF q % 2 = 0 THEN q ELSE q + 1

\* The number of entries of a list that satisfy a test.
Count(seq, Test(_)) == Cardinality({i \in DOMAIN seq : Test(seq[i])})

(***************************************************************************)
(* Team: the capacity policy (dataclass defaults, equal to the values      *)
(* create_teams passes).                                                   *)
(***************************************************************************)
max_squad_size == 25

min_squad_size == 18

max_overseas == 8

\* The dataclass default (create_teams passes 4).
max_uncapped == 5

\* required_roles: category -> (min, max).
required_roles ==
    [r \in {"BATTER", "BOWLER", "ALL-ROUNDER", "WICKETKEEPER"} |->
        CASE r = "BATTER" -> <<6, 8>>
          [] r = "BOWLER" -> <<6, 8>>
          [] r = "ALL-ROUNDER" -> <<3, 6>>
          [] r = "WICKETKEEPER" -> <<1, 3>>]

\* min_cost_per_player = 0.2 Cr.
min_cost_per_player == 20

\* The hard-coded overseas limit of calculate_capabilities.
capabilities_overseas_limit == 8

\* The roles calculate_capabilities counts.
capability_roles == {"BATTER", "BOWLER", "ALL-ROUNDER", "WICKETKEEPER"}

\* The role_counts length above which can_accommodate asks for a keeper.
keeper_check_threshold == 15

(***************************************************************************)
(* Team.get_overseas_count and the role counts of can_bid.                 *)
(***************************************************************************)
get_overseas_count(roster) ==
    LET overseas(p) == p.nationality # "India" IN Count(roster, overseas)

\* Team.get_uncapped_count.
get_uncapped_count(roster) ==
    LET uncapped(p) == p.test_caps + p.odi_caps + p.t20_caps = 0
    IN  Count(roster, uncapped)

role_count(roster, role) ==
    LET has_role(p) == p.category = role IN Count(roster, has_role)

\* The shortfall to the minimum of every role other than `category`.
RECURSIVE other_roles_shortfall(_, _, _)
other_roles_shortfall(roster, category, roles) ==
    IF roles = {} THEN 0
    ELSE LET role == CHOOSE r \in roles : TRUE
             current == role_count(roster, role)
             min_req == required_roles[role][1]
             here == IF role # category /\ current < min_req
                     THEN min_req - current ELSE 0
         IN  here + other_roles_shortfall(roster, category, roles \ {role})

(***************************************************************************)
(* Team.can_bid: the eligibility check, in the order of its early returns. *)
(* The lookup required_roles[player.category] raises KeyError for a        *)
(* category that is not configured, as the function application does here. *)
(***************************************************************************)
\* Mutant: the reserve for the minimum squad is not checked.
can_bid_no_reserve(team_purse, roster, player) ==
    /\ player.base_price <= team_purse
    /\ Len(roster) < max_squad_size
    /\ ~(player.nationality # "India"
            /\ get_overseas_count(roster) >= max_overseas)
    /\ role_count(roster, player.category) < required_roles[player.category][2]
    /\ max_squad_size - Len(roster) - 1
           - other_roles_shortfall(roster, player.category,
                                   DOMAIN required_roles) >= 0

\* Mutant: the role maximum is not checked.
can_bid_no_role_limit(team_purse, roster, player) ==
    LET current_squad_size == Len(roster)
        remaining_min_slots == Max(0, min_squad_size - current_squad_size - 1)
    IN  /\ player.base_price <= team_purse
        /\ current_squad_size < max_squad_size
        /\ ~(player.nationality # "India"
                /\ get_overseas_count(roster) >= max_overseas)
        /\ max_squad_size - current_squad_size - 1
               - other_roles_shortfall(roster, player.category,
                                       DOMAIN required_roles) >= 0
        /\ ~(remaining_min_slots > 0
                /\ (team_purse - player.base_price)
                       < remaining_min_slots * min_cost_per_player)

\* Mutant: the slots for the minimums of the other roles are not checked.
can_bid_no_minimums(team_purse, roster, player) ==
    LET current_squad_size == Len(roster)
        remaining_min_slots == Max(0, min_squad_size - current_squad_size - 1)
    IN  /\ player.base_price <= team_purse
        /\ current_squad_size < max_squad_size
        /\ ~(player.nationality # "India"
                /\ get_overseas_count(roster) >= max_overseas)
        /\ role_count(roster, player.category)
               < required_roles[player.category][2]
        /\ ~(remaining_min_slots > 0
                /\ (team_purse - player.base_price)
                       < remaining_min_slots * min_cost_per_player)

\* Mutant: the overseas count is not compared to max_overseas.
can_bid_no_overseas_limit(team_purse, roster, player) ==
    LET current_squad_size == Len(roster)
        remaining_min_slots == Max(0, min_squad_size - current_squad_size - 1)
    IN  /\ player.base_price <= team_purse
        /\ current_squad_size < max_squad_size
        /\ role_count(roster, player.category)
               < required_roles[player.category][2]
        /\ max_squad_size - current_squad_size - 1
               - other_roles_shortfall(roster, player.category,
                                       DOMAIN required_roles) >= 0
        /\ ~(remaining_min_slots > 0
                /\ (team_purse - player.base_price)
                       < remaining_min_slots * min_cost_per_player)

can_bid(team_purse, roster, player) ==
    LET current_squad_size == Len(roster)
        overseas_count == get_overseas_count(roster)
        remaining_min_slots == Max(0, min_squad_size - current_squad_size - 1)
    IN  IF player.base_price > team_purse THEN FALSE
        ELSE IF current_squad_size >= max_squad_size THEN FALSE
        ELSE IF player.nationality # "India" /\ overseas_count >= max_overseas
             THEN FALSE
        ELSE IF role_count(roster, player.category)
                    >= required_roles[player.category][2]
             THEN FALSE
        ELSE IF max_squad_size - current_squad_size - 1
                    - other_roles_shortfall(roster, player.category,
                                            DOMAIN required_roles) < 0
             THEN FALSE
        ELSE IF remaining_min_slots > 0
                /\ (team_purse - player.base_price)
                       < remaining_min_slots * min_cost_per_player
             THEN FALSE
        ELSE TRUE

(***************************************************************************)
(* Team.calculate_bid_value.  `randomization` is the jitter drawn from     *)
(* random.uniform(0.85, 1.15), in percent.                                 *)
(***************************************************************************)
experience_multiplier(player) ==
    LET status == IF player.current_ipl_status = "Y"
                  THEN <<3, 2>> ELSE <<1, 1>>
    IN  IF player.ipl_seasons > 100 THEN Mul(status, 3, 2)
        ELSE IF player.ipl_seasons > 50 THEN Mul(status, 13, 10)
        ELSE status

total_intl_caps(player) == player.test_caps + player.odi_caps + player.t20_caps

caps_multiplier(player) ==
    IF total_intl_caps(player) > 100 THEN <<9, 5>>
    ELSE IF total_intl_caps(player) > 50 THEN <<3, 2>>
    ELSE IF total_intl_caps(player) > 20 THEN <<13, 10>>
    ELSE <<1, 1>>

urgency_multiplier(roster, player) ==
    LET min_required == required_roles[player.category][1]
        current_count == role_count(roster, player.category)
    IN  IF current_count < min_required THEN <<2, 1>>
        ELSE IF current_count < min_required + 1 THEN <<3, 2>>
        ELSE <<1, 1>>

special_multiplier(player) ==
    LET intl == IF player.nationality # "India" THEN <<13, 10>> ELSE <<1, 1>>
        team == IF player.current_ipl_team \notin {None, ""}
                THEN Mul(intl, 6, 5) ELSE intl
    IN  IF player.age <= 25 THEN Mul(team, 6, 5) ELSE team

purse_factor(team_purse) ==
    IF team_purse > 3000 THEN <<7, 5>>
    ELSE IF team_purse > 2000 THEN <<6, 5>>
    ELSE <<1, 1>>

\* final_value before the thresholds: base * the five multipliers * jitter.
raw_value(team_purse, roster, player, randomization) ==
    LET e == experience_multiplier(player)
        c == caps_multiplier(player)
        u == urgency_multiplier(roster, player)
        s == special_multiplier(player)
        f == purse_factor(team_purse)
        v1 == Mul(<<player.base_price, 1>>, e[1], e[2])
        v2 == Mul(v1, c[1], c[2])
        v3 == Mul(v2, u[1], u[2])
        v4 == Mul(v3, s[1], s[2])
        v5 == Mul(v4, f[1], f[2])
    IN  Mul(v5, randomization, 100)

\* The minimum thresholds: 4 Cr above 50 caps, 2 Cr for keepers.
with_thresholds(value, player) ==
    LET capped == IF total_intl_caps(player) > 50
                  THEN FracMax(value, <<400, 1>>) ELSE value
    IN  IF player.category = "WICKETKEEPER"
        THEN FracMax(capped, <<200, 1>>) ELSE capped

\* min(final_value, purse * 0.4).
purse_cap(value, team_purse) == FracMin(value, Reduce(2 * team_purse, 5))

calculate_bid_value(team_purse, roster, player, randomization) ==
    Round(purse_cap(with_thresholds(
              raw_value(team_purse, roster, player, randomization), player),
          team_purse))

(***************************************************************************)
(* Team.calculate_capabilities and TeamCapabilities.can_accommodate.       *)
(***************************************************************************)
calculate_capabilities(roster) ==
    LET foreign(p) == p.nationality # "Indian"
    IN  [can_add_overseas |-> Count(roster, foreign) < capabilities_overseas_limit,
         can_add_uncapped |-> TRUE,
         has_keeper |-> \E i \in DOMAIN roster : roster[i].category = "WICKETKEEPER",
         role_counts |-> [role \in capability_roles |-> role_count(roster, role)]]

can_accommodate(capabilities, player) ==
    IF player.nationality # "Indian" /\ ~capabilities.can_add_overseas THEN FALSE
    ELSE IF ~capabilities.has_keeper
            /\ Cardinality(DOMAIN capabilities.role_counts) >= keeper_check_threshold
            /\ player.category # "WICKETKEEPER"
         THEN FALSE
    ELSE TRUE

(***************************************************************************)
(* AuctionSimulator._get_bid_increment.                                    *)
(***************************************************************************)
\* Mutant: the price bands exclude their upper ends.
get_bid_increment_open_bands(price) ==
    IF price < 100 THEN 5
    ELSE IF price < 200 THEN 10
    ELSE IF price < 300 THEN 10
    ELSE IF price < 500 THEN 20
    ELSE IF price < 1000 THEN 20
    ELSE 50

get_bid_increment(price) ==
    IF price <= 100 THEN 5
    ELSE IF price <= 200 THEN 10
    ELSE IF price <= 300 THEN 10
    ELSE IF price <= 500 THEN 20
    ELSE IF price <= 1000 THEN 20
    ELSE 50

(***************************************************************************)
(* AuctionSimulator.set_order and _get_sorted_players.                     *)
(***************************************************************************)
set_order ==
    << "M1", "M2",
       "AL1", "AL2", "AL3", "AL4", "AL5", "AL6", "AL7", "AL8", "AL9", "AL10",
       "BA1", "BA2", "BA3", "BA4", "BA5",
       "FA1", "FA2", "FA3", "FA4", "FA5", "FA6", "FA7", "FA8", "FA9", "FA10",
       "SP1", "SP2", "SP3",
       "WK1", "WK2", "WK3", "WK4",
       "UAL1", "UAL2", "UAL3", "UAL4", "UAL5", "UAL6", "UAL7", "UAL8", "UAL9",
       "UAL10", "UAL11", "UAL12", "UAL13", "UAL14", "UAL15",
       "UBA1", "UBA2", "UBA3", "UBA4", "UBA5", "UBA6", "UBA7", "UBA8", "UBA9",
       "UFA1", "UFA2", "UFA3", "UFA4", "UFA5", "UFA6", "UFA7", "UFA8", "UFA9",
       "UFA10",
       "USP1", "USP2", "USP3", "USP4", "USP5",
       "UWK1", "UWK2", "UWK3", "UWK4", "UWK5", "UWK6" >>

set_names == {set_order[i] : i \in DOMAIN set_order}

\* Mutant: the key is the base price alone.
sorts_before_by_price_only(p, q) == p.base_price > q.base_price

\* The sort key (-base_price, -ipl_seasons): p sorts strictly before q.
sorts_before(p, q) ==
    \/ p.base_price > q.base_price
    \/ p.base_price = q.base_price /\ p.ipl_seasons > q.ipl_seasons

\* list.sort is stable: p goes after every entry it does not sort before.
insert_sorted(sorted, p) ==
    LET before == {i \in DOMAIN sorted : sorts_before(p, sorted[i])}
        at == IF before = {} THEN Len(sorted) + 1
              ELSE CHOOSE i \in before : \A j \in before : i <= j
    IN  SubSeq(sorted, 1, at - 1) \o <<p>> \o SubSeq(sorted, at, Len(sorted))

RECURSIVE sort_players(_)
sort_players(seq) ==
    IF seq = <<>> THEN <<>>
    ELSE insert_sorted(sort_players(SubSeq(seq, 1, Len(seq) - 1)), seq[Len(seq)])

RECURSIVE sorted_sets(_, _)
sorted_sets(pool, i) ==
    IF i > Len(set_order) THEN <<>>
    ELSE LET in_set(p) == p.set_2025 = set_order[i]
         IN  sort_players(SelectSeq(pool, in_set)) \o sorted_sets(pool, i + 1)

\* Mutant: the players without a known set are left out.
get_sorted_players_known_sets_only(pool) == sorted_sets(pool, 1)

get_sorted_players(pool) ==
    LET unknown_set(p) == p.set_2025 \notin set_names
    IN  sorted_sets(pool, 1) \o sort_players(SelectSeq(pool, unknown_set))

(***************************************************************************)
(* Inputs: the players and teams handed to AuctionSimulator.               *)
(***************************************************************************)
\* Player(...), the dataclass of models/player.py.
Player(name, base_price, category, nationality, age, caps, ipl_seasons, current_ipl_team, current_ipl_status, set_2025) ==
    [name |-> name, base_price |-> base_price, category |-> category,
     nationality |-> nationality, age |-> age,
     test_caps |-> caps[1], odi_caps |-> caps[2], t20_caps |-> caps[3],
     ipl_seasons |-> ipl_seasons, current_ipl_team |-> current_ipl_team,
     current_ipl_status |-> current_ipl_status, set_2025 |-> set_2025]

\* The players an auction pool is drawn from.
PlayerPool ==
    { Player("Star", 200, "BATTER", "India", 35, <<100, 200, 100>>, 15,
             "RCB", "Y", "M1"),
      Player("Import", 50, "ALL-ROUNDER", "England", 24, <<20, 30, 10>>, 3,
             None, None, "M1"),
      Player("Gloves", 50, "WICKETKEEPER", "Australia", 30, <<20, 30, 10>>, 5,
             None, None, "WK1"),
      Player("Colt", 30, "WICKETKEEPER", "India", 22, <<0, 0, 0>>, 0,
             None, None, "UWK1"),
      Player("Seamer", 30, "BOWLER", "India", 30, <<0, 0, 0>>, 0,
             None, None, None),
      Player("Opener", 30, "Batsman", "India", 28, <<0, 0, 0>>, 2,
             None, None, "Legacy"),
      Player("Penny", 1, "BATTER", "India", 20, <<0, 0, 0>>, 1,
             "MI", "Y", "UBA1") }

\* Every list of MaxPlayers different players of the pool.
AuctionPools ==
    {s \in [1..MaxPlayers -> PlayerPool] :
        \A i, j \in 1..MaxPlayers : i # j => s[i] # s[j]}

\* A retained player of a given role and nationality.
Retained(category, nationality) ==
    Player("Retained", 400, category, nationality, 30, <<10, 10, 10>>, 8,
           "Own", "Y", None)

Repeat(n, p) == [i \in 1..n |-> p]

NoPlayers == <<>>

\* Three retained keepers: the keeper maximum is reached.
ThreeKeepers == Repeat(3, Retained("WICKETKEEPER", "India"))

\* Two retained keepers: one below the keeper maximum.
TwoKeepers == Repeat(2, Retained("WICKETKEEPER", "India"))

\* One slot left in the squad, and it may be filled by a batter.
AlmostFull ==
    Repeat(7, Retained("BATTER", "Indian")) \o Repeat(8, Retained("BOWLER", "Indian"))
    \o Repeat(6, Retained("ALL-ROUNDER", "Indian"))
    \o Repeat(3, Retained("WICKETKEEPER", "Indian"))

\* Retained players filed under a role name that required_roles does not
\* have: they fill the squad and count for no role.
Misfiled == Repeat(21, Retained("Batsman", "Indian"))

\* Seven retained overseas players: one below the overseas maximum.
SevenOverseas == Repeat(7, Retained("BOWLER", "England"))

\* Six batters and nine misfiled players: the ten slots left are all needed
\* for the minimums of the other roles.
TightRoster ==
    Repeat(6, Retained("BATTER", "Indian")) \o Repeat(9, Retained("Batsman", "Indian"))

\* Five retained players without an international cap: max_uncapped is
\* reached.
FiveUncapped ==
    Repeat(5, Player("Rookie", 20, "BOWLER", "India", 22, <<0, 0, 0>>, 0,
                     None, None, None))

team_name == <<"Mumbai Indians", "Chennai Super Kings">>

Teams == DOMAIN team_name

\* The teams of a run: for each team its purse and its retained players.
TeamSetups ==
    { << [purse |-> 12000, players |-> NoPlayers],
         [purse |-> 12000, players |-> NoPlayers] >>,
      << [purse |-> 380, players |-> NoPlayers],
         [purse |-> 380, players |-> NoPlayers] >>,
      << [purse |-> 360, players |-> NoPlayers],
         [purse |-> 20, players |-> NoPlayers] >>,
      << [purse |-> 20, players |-> NoPlayers],
         [purse |-> 20, players |-> NoPlayers] >>,
      << [purse |-> 10800, players |-> ThreeKeepers],
         [purse |-> 380, players |-> NoPlayers] >>,
      << [purse |-> 11200, players |-> TwoKeepers],
         [purse |-> 380, players |-> NoPlayers] >>,
      << [purse |-> 2400, players |-> AlmostFull],
         [purse |-> 20, players |-> NoPlayers] >>,
      << [purse |-> 5, players |-> AlmostFull],
         [purse |-> 20, players |-> NoPlayers] >>,
      << [purse |-> 3600, players |-> Misfiled],
         [purse |-> 20, players |-> NoPlayers] >>,
      << [purse |-> 12000, players |-> NoPlayers],
         [purse |-> 20, players |-> NoPlayers] >>,
      << [purse |-> 1200, players |-> SevenOverseas],
         [purse |-> 20, players |-> NoPlayers] >>,
      << [purse |-> 88, players |-> NoPlayers],
         [purse |-> 88, players |-> NoPlayers] >>,
      << [purse |-> 2600, players |-> TightRoster],
         [purse |-> 20, players |-> NoPlayers] >>,
      << [purse |-> 11900, players |-> FiveUncapped],
         [purse |-> 20, players |-> NoPlayers] >> }

\* The jitter values drawn in the model: the ends and the middle of
\* random.uniform(0.85, 1.15), in percent.
Randomization == {85, 100, 115}

\* last_bidder = None.
NoTeam == 0

(***************************************************************************)
(* State.                                                                  *)
(***************************************************************************)
VARIABLES
    players,           \* AuctionSimulator.players
    team_purse,        \* Team.purse of every team
    team_players,      \* Team.players of every team
    initial_purse,     \* history: Team.purse at construction
    retained_players,  \* Team.retained_players of every team
    sold_players,      \* AuctionSimulator.sold_players
    auction_history,   \* AuctionSimulator.auction_history
    sorted_players,    \* simulate_auction: sorted_players
    team_capabilities, \* simulate_auction: the pre-calculated capabilities
    idx,               \* simulate_auction: position in sorted_players (from 1)
    auction_record,    \* simulate_auction: the record of the current player
    current_price,     \* _process_bidding: current_price
    active_teams,      \* _process_bidding: active_teams
    pass_teams,        \* _process_bidding: what is left of active_teams[:]
    last_bidder,       \* _process_bidding: last_bidder
    progress_callback, \* simulate_auction: a progress_callback is given
    current_set,       \* simulate_auction: current_set
    progress_calls,    \* history: the calls made to progress_callback
    can_bid_returned,  \* history: what Team.can_bid returned to a direct caller
    created_teams,     \* what Team.create_teams() returned after the run
    pc                 \* where simulate_auction stands

vars == <<players, team_purse, team_players, initial_purse, retained_players,
          sold_players,
          auction_history, sorted_players, team_capabilities, idx,
          auction_record, current_price, active_teams, pass_teams,
          last_bidder, progress_callback, current_set, progress_calls,
          can_bid_returned, created_teams, pc>>

team_vars == <<team_purse, team_players, sold_players>>

bidding_vars == <<current_price, active_teams, pass_teams, last_bidder>>

input_vars == <<players, initial_purse, retained_players, sorted_players,
                team_capabilities>>

progress_vars == <<progress_callback, current_set, progress_calls>>

Init ==
    /\ players \in AuctionPools
    /\ \E setup \in TeamSetups :
          /\ team_purse = [t \in Teams |-> setup[t].purse]
          /\ team_players = [t \in Teams |-> setup[t].players]
          /\ initial_purse = [t \in Teams |-> setup[t].purse]
          /\ retained_players = [t \in Teams |-> setup[t].players]
    /\ sold_players = <<>>
    /\ auction_history = <<>>
    /\ sorted_players = <<>>
    /\ team_capabilities = <<>>
    /\ idx = 1
    /\ auction_record = <<>>
    /\ current_price = 0
    /\ active_teams = <<>>
    /\ pass_teams = <<>>
    /\ last_bidder = NoTeam
    /\ progress_callback \in BOOLEAN
    /\ current_set = None
    /\ progress_calls = <<>>
    /\ can_bid_returned = <<>>
    /\ created_teams = <<>>
    /\ pc = "init"

(***************************************************************************)
(* simulate_auction.                                                       *)
(***************************************************************************)
\* The player being auctioned.
player == sorted_players[idx]

\* getattr(player, '2025_Set', 'Unassigned'): Player has no such attribute.
player_set_of(p) == "Unassigned"

\* _create_auction_record (the timestamp is left out).
create_auction_record(p, player_set) ==
    [player_name |-> p.name, base_price |-> p.base_price,
     category |-> p.category, nationality |-> p.nationality,
     test_caps |-> p.test_caps, odi_caps |-> p.odi_caps,
     t20_caps |-> p.t20_caps, ipl_seasons |-> p.ipl_seasons,
     set |-> player_set, bidding_history |-> <<>>,
     final_price |-> NoPrice, winning_team |-> None, status |-> "Unsold"]

\* Mutant: the purse is not compared to the base price.
is_interested_any_purse(t, p) == can_accommodate(team_capabilities[t], p)

\* The filter of simulate_auction on one team.
is_interested(t, p) ==
    /\ team_purse[t] >= p.base_price
    /\ can_accommodate(team_capabilities[t], p)

\* interested_teams, in the order of self.teams.
interested_teams(p) ==
    LET keep(t) == is_interested(t, p)
    IN  SelectSeq([t \in Teams |-> t], keep)

\* progress_callback(idx, len(sorted_players), message), when one is given;
\* what it returns is dropped.
notify(calls, message) ==
    IF progress_callback
    THEN Append(calls, [idx |-> idx - 1, total |-> Len(sorted_players),
                        message |-> message])
    ELSE calls

\* The head of the loop body: the set of the player is compared to
\* current_set and the callback is told of the new set and of the player.
AnnouncePlayer ==
    LET player_set == player_set_of(player)
        set_announced == IF player_set # current_set
                         THEN notify(progress_calls, <<"Starting Set", player_set>>)
                         ELSE progress_calls
    IN  /\ current_set' = player_set
        /\ progress_calls' = notify(set_announced, <<player.name, player_set>>)
        /\ UNCHANGED progress_callback

\* The position after the current player: the loop goes on.
NextPlayer ==
    /\ idx' = idx + 1
    /\ pc' = "loop"

\* The sort and the capabilities computed before the loop.
BeginAuction ==
    /\ pc = "init"
    /\ sorted_players' = get_sorted_players(players)
    /\ team_capabilities' =
           [t \in Teams |-> calculate_capabilities(team_players[t])]
    /\ idx' = 1
    /\ pc' = "loop"
    /\ UNCHANGED <<created_teams, can_bid_returned, progress_vars, players, initial_purse,
                   retained_players, team_vars, auction_history,
                   auction_record, bidding_vars>>

\* No interested team: the record is appended as created.
SkipPlayer ==
    /\ pc = "loop"
    /\ idx <= Len(sorted_players)
    /\ interested_teams(player) = <<>>
    /\ AnnouncePlayer
    /\ auction_record' = create_auction_record(player, player_set_of(player))
    /\ auction_history' = Append(auction_history, auction_record')
    /\ NextPlayer
    /\ UNCHANGED <<created_teams, can_bid_returned, input_vars, team_vars, bidding_vars>>

\* _process_bidding is entered: its locals are set.
OpenBidding ==
    /\ pc = "loop"
    /\ idx <= Len(sorted_players)
    /\ interested_teams(player) # <<>>
    /\ AnnouncePlayer
    /\ auction_record' = create_auction_record(player, player_set_of(player))
    /\ current_price' = player.base_price
    /\ active_teams' = interested_teams(player)
    /\ pass_teams' = interested_teams(player)
    /\ last_bidder' = NoTeam
    /\ pc' = "bidding"
    /\ UNCHANGED <<created_teams, can_bid_returned, input_vars, team_vars, auction_history, idx>>

\* The loop over sorted_players is over.
Return ==
    /\ pc = "loop"
    /\ idx > Len(sorted_players)
    /\ pc' = "done"
    /\ UNCHANGED <<created_teams, can_bid_returned, progress_vars, input_vars, team_vars, auction_history, idx, auction_record,
                   bidding_vars>>

(***************************************************************************)
(* _process_bidding: one team's turn in the pass over active_teams[:].     *)
(***************************************************************************)
\* Mutant: the event carries the price before the raise.
bid_event_stale_amount(t, amount, status) ==
    [team |-> team_name[t], bid_amount |-> current_price, status |-> status]

bid_event(t, amount, status) ==
    [team |-> team_name[t], bid_amount |-> amount, status |-> status]

\* Mutant: a max_bid equal to the current price does not make the team
\* withdraw.
withdraws_below_price_only(t, max_bid) ==
    max_bid < current_price \/ current_price > team_purse[t]

\* The team withdraws on this max_bid.
withdraws(t, max_bid) == max_bid <= current_price \/ current_price > team_purse[t]

\* list.remove(team).
remove_team(teams, t) == LET other(u) == u # t IN SelectSeq(teams, other)

\* calculate_bid_value raises KeyError on a category without required_roles.
BidKeyError ==
    /\ pc = "bidding"
    /\ pass_teams # <<>>
    /\ player.category \notin DOMAIN required_roles
    /\ pc' = "aborted"
    /\ UNCHANGED <<created_teams, can_bid_returned, progress_vars, input_vars, team_vars, auction_history, idx, auction_record,
                   bidding_vars>>

Withdraw ==
    /\ pc = "bidding"
    /\ pass_teams # <<>>
    /\ player.category \in DOMAIN required_roles
    /\ LET t == Head(pass_teams)
       IN  /\ \E randomization \in Randomization :
                 withdraws(t, calculate_bid_value(team_purse[t], team_players[t],
                                                  player, randomization))
           /\ auction_record' =
                  [auction_record EXCEPT !.bidding_history =
                       Append(@, bid_event(t, current_price, "Withdrew"))]
           /\ active_teams' = remove_team(active_teams, t)
           /\ pass_teams' = Tail(pass_teams)
    /\ UNCHANGED <<created_teams, can_bid_returned, progress_vars, input_vars, team_vars, auction_history, idx, current_price,
                   last_bidder, pc>>

\* round(current_price + increment, 2) is exact in hundredths.
Raise ==
    /\ pc = "bidding"
    /\ pass_teams # <<>>
    /\ player.category \in DOMAIN required_roles
    /\ LET t == Head(pass_teams)
           new_price == current_price + get_bid_increment(current_price)
       IN  /\ \E randomization \in Randomization :
                 ~withdraws(t, calculate_bid_value(team_purse[t], team_players[t],
                                                   player, randomization))
           /\ auction_record' =
                  [auction_record EXCEPT !.bidding_history =
                       Append(@, bid_event(t, new_price, "Active"))]
           /\ current_price' = new_price
           /\ last_bidder' = t
           /\ pass_teams' = Tail(pass_teams)
    /\ UNCHANGED <<created_teams, can_bid_returned, progress_vars, input_vars, team_vars, auction_history, idx, active_teams, pc>>

\* The test after a pass: one team left, and it bid last.
bidding_settled == Len(active_teams) = 1 /\ last_bidder = active_teams[1]

\* Mutant: every new pass takes the teams in the reverse order.
NextPass_reversed ==
    /\ pc = "bidding"
    /\ pass_teams = <<>>
    /\ ~bidding_settled
    /\ active_teams # <<>>
    /\ pass_teams' = [i \in DOMAIN active_teams |->
                          active_teams[Len(active_teams) + 1 - i]]
    /\ UNCHANGED <<created_teams, can_bid_returned, progress_vars, input_vars, team_vars, auction_history, idx, auction_record,
                   current_price, active_teams, last_bidder, pc>>

\* Neither the break nor the end of the while loop: another pass.
NextPass ==
    /\ pc = "bidding"
    /\ pass_teams = <<>>
    /\ ~bidding_settled
    /\ active_teams # <<>>
    /\ pass_teams' = active_teams
    /\ UNCHANGED <<created_teams, can_bid_returned, progress_vars, input_vars, team_vars, auction_history, idx, auction_record,
                   current_price, active_teams, last_bidder, pc>>

\* Mutant: the loop is left by the break only.
EndBidding_only_on_break ==
    /\ pc = "bidding"
    /\ pass_teams = <<>>
    /\ bidding_settled
    /\ pc' = "resolve"
    /\ UNCHANGED <<created_teams, can_bid_returned, progress_vars, input_vars, team_vars, auction_history, idx,
                   auction_record, bidding_vars>>

\* The break, or active_teams is empty.
EndBidding ==
    /\ pc = "bidding"
    /\ pass_teams = <<>>
    /\ bidding_settled \/ active_teams = <<>>
    /\ pc' = "resolve"
    /\ UNCHANGED <<created_teams, can_bid_returned, progress_vars, input_vars, team_vars, auction_history, idx, auction_record,
                   bidding_vars>>

(***************************************************************************)
(* The end of _process_bidding, _finalize_sale and the append of the       *)
(* record to auction_history.                                              *)
(***************************************************************************)
\* Mutant: the sale is finalized without comparing the price to the purse.
sale_attempted_unchecked == last_bidder # NoTeam

\* The condition under which _process_bidding calls _finalize_sale.
sale_attempted == last_bidder # NoTeam /\ current_price <= team_purse[last_bidder]

\* Mutant: the sale is not validated.
sale_valid_always(t, p) == TRUE

\* The validation of _finalize_sale.
sale_valid(t, p) == can_bid(team_purse[t], team_players[t], p)

\* Mutant: the base price is debited instead of the final price.
purse_after_sale_base_price(t, final_price) == team_purse[t] - player.base_price

\* winning_team.purse -= final_price.
purse_after_sale(t, final_price) == team_purse[t] - final_price

NoSale ==
    /\ pc = "resolve"
    /\ ~sale_attempted
    /\ auction_history' = Append(auction_history, auction_record)
    /\ NextPlayer
    /\ UNCHANGED <<created_teams, can_bid_returned, progress_vars, input_vars, team_vars, auction_record, bidding_vars>>

SaleValidationFailed ==
    /\ pc = "resolve"
    /\ sale_attempted
    /\ ~sale_valid(last_bidder, player)
    /\ auction_record' = [auction_record EXCEPT !.status = "Unsold",
                                                !.final_price = NoPrice,
                                                !.winning_team = None]
    /\ auction_history' = Append(auction_history, auction_record')
    /\ NextPlayer
    /\ UNCHANGED <<created_teams, can_bid_returned, progress_vars, input_vars, team_vars, bidding_vars>>

\* Mutant: the sale is recorded and paid, and the player is not appended to
\* the roster.
CommitSale_roster_unchanged ==
    /\ pc = "resolve"
    /\ sale_attempted
    /\ sale_valid(last_bidder, player)
    /\ team_purse' = [team_purse EXCEPT
                          ![last_bidder] = purse_after_sale(last_bidder, current_price)]
    /\ sold_players' = (player.name :> <<team_name[last_bidder], current_price>>)
                           @@ sold_players
    /\ auction_record' = [auction_record EXCEPT !.final_price = current_price,
                                                !.winning_team = team_name[last_bidder],
                                                !.status = "Sold"]
    /\ auction_history' = Append(auction_history, auction_record')
    /\ NextPlayer
    /\ UNCHANGED <<created_teams, can_bid_returned, progress_vars, input_vars,
                   team_players, bidding_vars>>

CommitSale ==
    /\ pc = "resolve"
    /\ sale_attempted
    /\ sale_valid(last_bidder, player)
    /\ team_players' = [team_players EXCEPT ![last_bidder] = Append(@, player)]
    /\ team_purse' = [team_purse EXCEPT
                          ![last_bidder] = purse_after_sale(last_bidder, current_price)]
    /\ sold_players' = (player.name :> <<team_name[last_bidder], current_price>>)
                           @@ sold_players
    /\ auction_record' = [auction_record EXCEPT !.final_price = current_price,
                                                !.winning_team = team_name[last_bidder],
                                                !.status = "Sold"]
    /\ auction_history' = Append(auction_history, auction_record')
    /\ NextPlayer
    /\ UNCHANGED <<created_teams, can_bid_returned, progress_vars, input_vars, bidding_vars>>

Next ==
    \/ BeginAuction
    \/ SkipPlayer
    \/ OpenBidding
    \/ Return
    \/ BidKeyError
    \/ Withdraw
    \/ Raise
    \/ NextPass
    \/ EndBidding
    \/ NoSale
    \/ SaleValidationFailed
    \/ CommitSale

Spec == Init /\ [][Next]_vars

(***************************************************************************)
(* Team.can_bid called directly, on the teams and the first player of a    *)
(* run that has not started.                                               *)
(***************************************************************************)
\* What a call of can_bid gives: True, False, or the KeyError of
\* self.required_roles[player.category] when the three checks before it pass.
can_bid_outcome(t, p) ==
    IF p.category \in DOMAIN required_roles
    THEN IF can_bid(team_purse[t], team_players[t], p) THEN "True" ELSE "False"
    ELSE IF \/ p.base_price > team_purse[t]
            \/ Len(team_players[t]) >= max_squad_size
            \/ /\ p.nationality # "India"
               /\ get_overseas_count(team_players[t]) >= max_overseas
         THEN "False"
         ELSE "KeyError"

\* Mutant: a call that returns True sets the base price aside.
CallCanBid_reserving(t, p) ==
    /\ Len(can_bid_returned) < MaxCalls
    /\ can_bid_returned' =
           Append(can_bid_returned,
                  [team |-> t, player |-> p.name, outcome |-> can_bid_outcome(t, p)])
    /\ team_purse' = [team_purse EXCEPT
                          ![t] = IF can_bid_outcome(t, p) = "True"
                                 THEN @ - p.base_price ELSE @]
    /\ UNCHANGED <<created_teams, progress_vars, input_vars, team_players, sold_players,
                   auction_history, idx, auction_record, bidding_vars, pc>>

\* team.can_bid(player): it reads purse and players and assigns nothing.
CallCanBid(t, p) ==
    /\ Len(can_bid_returned) < MaxCalls
    /\ can_bid_returned' =
           Append(can_bid_returned,
                  [team |-> t, player |-> p.name, outcome |-> can_bid_outcome(t, p)])
    /\ UNCHANGED <<created_teams, progress_vars, input_vars, team_vars, auction_history, idx,
                   auction_record, bidding_vars, pc>>

NextEligibility == \E t \in Teams : CallCanBid(t, players[1])

SpecEligibility == Init /\ [][NextEligibility]_vars

(***************************************************************************)
(* The same run for teams of any purse: Team and AuctionSimulator take the *)
(* purse as it is given.                                                   *)
(***************************************************************************)
\* A team constructed with a purse below zero, next to one that can buy.
NegativePurseSetups ==
    { << [purse |-> -100, players |-> NoPlayers],
         [purse |-> 380, players |-> NoPlayers] >> }

InitAnyPurse ==
    /\ players \in AuctionPools
    /\ \E setup \in TeamSetups \cup NegativePurseSetups :
          /\ team_purse = [t \in Teams |-> setup[t].purse]
          /\ team_players = [t \in Teams |-> setup[t].players]
          /\ initial_purse = [t \in Teams |-> setup[t].purse]
          /\ retained_players = [t \in Teams |-> setup[t].players]
    /\ sold_players = <<>>
    /\ auction_history = <<>>
    /\ sorted_players = <<>>
    /\ team_capabilities = <<>>
    /\ idx = 1
    /\ auction_record = <<>>
    /\ current_price = 0
    /\ active_teams = <<>>
    /\ pass_teams = <<>>
    /\ last_bidder = NoTeam
    /\ progress_callback \in BOOLEAN
    /\ current_set = None
    /\ progress_calls = <<>>
    /\ can_bid_returned = <<>>
    /\ created_teams = <<>>
    /\ pc = "init"

SpecAnyPurse == InitAnyPurse /\ [][Next]_vars

(***************************************************************************)
(* A season: the teams come from Team.create_teams(), the auction runs,    *)
(* and create_teams() is called once more.                                 *)
(***************************************************************************)
\* The purse create_teams starts from: purse = 120 - sum(...).
full_purse == 12000

\* sum(p.base_price for p in roster).
RECURSIVE sum_base_price(_)
sum_base_price(roster) ==
    IF roster = <<>> THEN 0
    ELSE Head(roster).base_price + sum_base_price(Tail(roster))

\* Team.create_teams() on the module's retained lists: every team gets the
\* list itself as players, not a copy.
create_teams(retained) ==
    [t \in Teams |-> [purse |-> full_purse - sum_base_price(retained[t]),
                      players |-> retained[t]]]

\* Eight retained overseas players: the capabilities admit no further one.
EightOverseas == Repeat(8, Retained("BOWLER", "England"))

\* A squad of max_squad_size players.
FullSquad == AlmostFull \o Repeat(1, Retained("BOWLER", "Indian"))

\* The retained lists load_auction_players may have filled.
LoadedRetained ==
    { <<NoPlayers, NoPlayers>>,
      <<ThreeKeepers, NoPlayers>>,
      <<EightOverseas, EightOverseas>>,
      <<FullSquad, EightOverseas>> }

InitSeason ==
    /\ players \in AuctionPools
    /\ \E retained \in LoadedRetained :
          /\ team_purse = [t \in Teams |-> create_teams(retained)[t].purse]
          /\ team_players = [t \in Teams |-> create_teams(retained)[t].players]
          /\ initial_purse = [t \in Teams |-> create_teams(retained)[t].purse]
          /\ retained_players = [t \in Teams |-> create_teams(retained)[t].players]
    /\ sold_players = <<>>
    /\ auction_history = <<>>
    /\ sorted_players = <<>>
    /\ team_capabilities = <<>>
    /\ idx = 1
    /\ auction_record = <<>>
    /\ current_price = 0
    /\ active_teams = <<>>
    /\ pass_teams = <<>>
    /\ last_bidder = NoTeam
    /\ progress_callback \in BOOLEAN
    /\ current_set = None
    /\ progress_calls = <<>>
    /\ can_bid_returned = <<>>
    /\ created_teams = <<>>
    /\ pc = "init"

\* Team.create_teams() after the run.  The module's retained lists are the
\* list objects the first teams hold as players, so they are read here as
\* team_players.
CreateTeams ==
    /\ pc = "done"
    /\ created_teams = <<>>
    /\ created_teams' = create_teams(team_players)
    /\ UNCHANGED <<can_bid_returned, progress_vars, input_vars, team_vars,
                   auction_history, idx, auction_record, bidding_vars, pc>>

NextSeason == Next \/ CreateTeams

SpecSeason == InitSeason /\ [][NextSeason]_vars

(***************************************************************************)
(* Properties.                                                             *)
(***************************************************************************)
\* The team with a given name.
team_called(name) == CHOOSE t \in Teams : team_name[t] = name

\* The records of the ledger about a player.
records_of(name) ==
    {k \in DOMAIN auction_history : auction_history[k].player_name = name}

\* The records of the ledger that name a team as the winner of a sale.
sales_to(t) ==
    {k \in DOMAIN auction_history :
        /\ auction_history[k].status = "Sold"
        /\ auction_history[k].winning_team = team_name[t]}

\* The sum of the final prices of the first n records sold to a team.
RECURSIVE spent_by(_, _)
spent_by(t, n) ==
    IF n = 0 THEN 0
    ELSE spent_by(t, n - 1)
         + (IF n \in sales_to(t) THEN auction_history[n].final_price ELSE 0)

\* The record appended by this step, when the step appends one.
record_appended == Len(auction_history') = Len(auction_history) + 1

new_record == auction_history'[Len(auction_history')]

\* C1: after simulate_auction has completed, the ledger holds exactly one
\* record for every player handed in and none for anything else, and a record
\* is Sold if and only if it has both a winning team and a final price.
C1_OneRecordPerPlayer ==
    pc = "done" =>
        /\ Len(auction_history) = Len(players)
        /\ \A i \in DOMAIN players : Cardinality(records_of(players[i].name)) = 1
        /\ \A k \in DOMAIN auction_history :
              /\ \E i \in DOMAIN players :
                    auction_history[k].player_name = players[i].name
              /\ auction_history[k].status \in {"Sold", "Unsold"}
              /\ auction_history[k].status = "Sold"
                    <=> /\ auction_history[k].winning_team # None
                        /\ auction_history[k].final_price # NoPrice

\* A completed run with a Sold and an Unsold record.
C1_Witness ==
    /\ pc = "done"
    /\ \E k \in DOMAIN auction_history : auction_history[k].status = "Sold"
    /\ \E k \in DOMAIN auction_history : auction_history[k].status = "Unsold"

\* C2: a record that is Sold has a final price that is at least the player's
\* base price and at most the purse the winning team had before the debit.
C2_SoldPriceWithinPurse ==
    [][(record_appended /\ new_record.status = "Sold") =>
          /\ new_record.final_price >= new_record.base_price
          /\ new_record.final_price
                 <= team_purse[team_called(new_record.winning_team)]]_vars

\* A sale above the base price is in the ledger.
C2_Witness ==
    \E k \in DOMAIN auction_history :
        /\ auction_history[k].status = "Sold"
        /\ auction_history[k].final_price > auction_history[k].base_price

\* C3: after a full run the purse of every team is its purse at the start
\* minus the final prices of the Sold records that name it as the winner.
C3_PurseIsStartMinusSales ==
    pc = "done" =>
        \A t \in Teams :
            team_purse[t] = initial_purse[t] - spent_by(t, Len(auction_history))

\* A completed run in which one team has bought two players.
C3_Witness ==
    /\ pc = "done"
    /\ \E t \in Teams : Cardinality(sales_to(t)) >= 2

\* C4: the teams start with purses that are not negative, and the purse of
\* a team is never negative.
C4_PurseNeverNegative == \A t \in Teams : team_purse[t] >= 0

\* The bidding ended with a leader whose bid is above its purse.
C4_Witness ==
    /\ pc = "resolve"
    /\ last_bidder # NoTeam
    /\ current_price > team_purse[last_bidder]

\* C5: the rosters start within their limits, and in every state a roster has
\* at most max_squad_size players and at most the maximum of every role.
C5_RosterWithinLimits ==
    \A t \in Teams :
        /\ Len(team_players[t]) <= max_squad_size
        /\ \A role \in DOMAIN required_roles :
              role_count(team_players[t], role) <= required_roles[role][2]

\* A team has bought a player that filled its squad and the role.
C5_Witness ==
    \E t \in Teams :
        /\ sales_to(t) # {}
        /\ Len(team_players[t]) = max_squad_size
        /\ role_count(team_players[t], "BATTER") = required_roles["BATTER"][2]

\* The five conditions of eligibility, for a player of a configured role.
five_conditions(purse, roster, p) ==
    LET shortfall(role) ==
            IF role = p.category THEN 0
            ELSE Max(0, required_roles[role][1] - role_count(roster, role))
    IN  /\ purse >= p.base_price
        /\ Len(roster) < max_squad_size
        /\ p.nationality # "India" => get_overseas_count(roster) < max_overseas
        /\ role_count(roster, p.category) < required_roles[p.category][2]
        /\ (max_squad_size - Len(roster) - 1)
               - (shortfall("BATTER") + shortfall("BOWLER")
                  + shortfall("ALL-ROUNDER") + shortfall("WICKETKEEPER")) >= 0

\* The reserve of 0.2 Cr for every slot still missing to the minimum squad
\* after the purchase.
reserve_kept(purse, roster, p) ==
    Len(roster) + 1 < min_squad_size =>
        purse - p.base_price
            >= (min_squad_size - Len(roster) - 1) * min_cost_per_player

\* The players of the pool whose role has a configured range.
configured_players == {p \in PlayerPool : p.category \in DOMAIN required_roles}

\* C6 as stated: can_bid is true if and only if the five conditions hold.
C6_FiveConditionsOnly ==
    \A t \in Teams, p \in configured_players :
        can_bid(team_purse[t], team_players[t], p)
            <=> five_conditions(team_purse[t], team_players[t], p)

\* C6, amended: for a player of a configured role, can_bid is true if and
\* only if the five conditions hold and the reserve for the minimum squad is
\* kept.
C6_FiveConditionsAndReserve ==
    \A t \in Teams, p \in configured_players :
        can_bid(team_purse[t], team_players[t], p)
            <=> /\ five_conditions(team_purse[t], team_players[t], p)
                /\ reserve_kept(team_purse[t], team_players[t], p)

\* The leader of a sale meets the five conditions and fails the validation.
C6_Witness ==
    /\ pc = "resolve"
    /\ sale_attempted
    /\ five_conditions(team_purse[last_bidder], team_players[last_bidder], player)
    /\ ~sale_valid(last_bidder, player)

\* A player is in its bidding, and its role is configured.
in_bidding == pc \in {"bidding", "resolve"}

\* The bid log of the current player has an event of the team.
logged_for(t) ==
    \E k \in DOMAIN auction_record.bidding_history :
        auction_record.bidding_history[k].team = team_name[t]

is_active(t) == \E k \in DOMAIN active_teams : active_teams[k] = t

\* C7: a team that has the maximum of the player's role is not among the
\* active teams of that player and has no event in the player's bid log.
C7_RoleMaximumNotAdmitted ==
    (in_bidding /\ player.category \in DOMAIN required_roles) =>
        \A t \in Teams :
            role_count(team_players[t], player.category)
                    >= required_roles[player.category][2]
                => ~is_active(t) /\ ~logged_for(t)

\* C8: a team whose purse is below the base price of the player when the
\* player comes up is not among the active teams and has no event in the
\* player's bid log.
C8_PurseBelowBasePriceExcluded ==
    in_bidding =>
        \A t \in Teams :
            team_purse[t] < player.base_price => ~is_active(t) /\ ~logged_for(t)

\* The bidding for a player ended with bids, one team being too poor for it.
C8_Witness ==
    /\ pc = "resolve"
    /\ auction_record.bidding_history # <<>>
    /\ \E t \in Teams : team_purse[t] < player.base_price

\* C9: a sale is committed only if the leader passes the eligibility check
\* with the final price in the place of the base price.
C9_ValidatedAtFinalPrice ==
    [][(record_appended /\ new_record.status = "Sold") =>
          can_bid(team_purse[last_bidder], team_players[last_bidder],
                  [player EXCEPT !.base_price = current_price])]_vars

\* C10: when the validation of the leader fails, the record is appended
\* Unsold without price and winner, no purse, roster or sold_players entry
\* changes, and the auction goes on with the next player.
C10_FailedValidationChangesNothing ==
    [][(pc = "resolve" /\ sale_attempted
            /\ ~can_bid(team_purse[last_bidder], team_players[last_bidder], player))
        => /\ record_appended
           /\ new_record.player_name = player.name
           /\ new_record.status = "Unsold"
           /\ new_record.final_price = NoPrice
           /\ new_record.winning_team = None
           /\ new_record.bidding_history = auction_record.bidding_history
           /\ team_purse' = team_purse
           /\ team_players' = team_players
           /\ sold_players' = sold_players
           /\ idx' = idx + 1
           /\ pc' = "loop"]_vars

\* The last record is Unsold although its bidding ended with a leader whose
\* bid was within its purse.
C10_Witness ==
    /\ pc = "loop"
    /\ auction_history # <<>>
    /\ auction_history[Len(auction_history)].status = "Unsold"
    /\ auction_history[Len(auction_history)].bidding_history # <<>>
    /\ auction_history[Len(auction_history)].player_name = sorted_players[idx - 1].name
    /\ last_bidder # NoTeam
    /\ current_price <= team_purse[last_bidder]

\* The records written so far: the ledger and the record of the player in
\* its bidding.
all_records ==
    {auction_history[k] : k \in DOMAIN auction_history}
        \cup (IF in_bidding THEN {auction_record} ELSE {})

\* The Active events of a bid log, in order.
active_events(log) ==
    LET is_active_event(e) == e.status = "Active" IN SelectSeq(log, is_active_event)

\* The increment schedule as published: up to 1.0 +0.05, up to 3.0 +0.10,
\* up to 10.0 +0.20, above +0.50.
schedule_increment(price) ==
    CASE price <= 100 -> 5
      [] price > 100 /\ price <= 300 -> 10
      [] price > 300 /\ price <= 1000 -> 20
      [] price > 1000 -> 50

\* C11: in every bid log the first Active amount is the base price plus the
\* scheduled increment of the base price, every later Active amount is the
\* previous Active amount plus its scheduled increment, and the Active
\* amounts strictly increase.
C11_IncrementsFollowSchedule ==
    \A r \in all_records :
        LET active == active_events(r.bidding_history)
        IN  \A k \in DOMAIN active :
                LET previous == IF k = 1 THEN r.base_price
                                ELSE active[k - 1].bid_amount
                IN  /\ active[k].bid_amount = previous + schedule_increment(previous)
                    /\ active[k].bid_amount > previous

\* A bid log whose Active amounts go through every band of the schedule,
\* with a raise made at the upper end of a band.
C11_Witness ==
    \E r \in all_records :
        LET active == active_events(r.bidding_history)
        IN  /\ \E k \in DOMAIN active : active[k].bid_amount <= 100
            /\ \E k \in DOMAIN active : active[k].bid_amount = 105
            /\ \E k \in DOMAIN active : active[k].bid_amount > 100
                                           /\ active[k].bid_amount <= 300

\* A bid log with a raise above 10.0.
C11_WitnessTopBand ==
    \E r \in all_records :
        \E k \in DOMAIN r.bidding_history :
            /\ r.bidding_history[k].status = "Active"
            /\ r.bidding_history[k].bid_amount > 1050

\* The teams that have an event in a bid log.
bidders_of(log) == {log[k].team : k \in DOMAIN log}

\* C12: a Sold record whose bid log has the events of one team only has the
\* base price as its final price.
C12_LoneBidderBuysAtBasePrice ==
    \A k \in DOMAIN auction_history :
        (/\ auction_history[k].status = "Sold"
         /\ Cardinality(bidders_of(auction_history[k].bidding_history)) = 1)
            => auction_history[k].final_price = auction_history[k].base_price

\* The position of the first Withdrew event of a bid log, or one past its
\* end.
first_withdrawal(log) ==
    LET withdrawals == {k \in DOMAIN log : log[k].status = "Withdrew"}
    IN  IF withdrawals = {} THEN Len(log) + 1
        ELSE CHOOSE k \in withdrawals : \A j \in withdrawals : k <= j

\* C13: in every bid log the events before the first withdrawal are raises
\* that change hands every time, each one scheduled increment above the
\* price before it, and the bidding of two teams does not end before one of
\* them has withdrawn.
C13_RaisesAlternateUntilWithdrawal ==
    /\ \A r \in all_records :
           LET log == r.bidding_history
           IN  \A k \in 1..(first_withdrawal(log) - 1) :
                   LET previous == IF k = 1 THEN r.base_price
                                   ELSE log[k - 1].bid_amount
                   IN  /\ log[k].status = "Active"
                       /\ k > 1 => log[k].team # log[k - 1].team
                       /\ log[k].bid_amount = previous + schedule_increment(previous)
    /\ \A k \in DOMAIN auction_history :
           Cardinality(bidders_of(auction_history[k].bidding_history)) = 2
               => first_withdrawal(auction_history[k].bidding_history)
                      <= Len(auction_history[k].bidding_history)

\* Two teams with ample purses and empty rosters have raised in turn six
\* times or more before one of them withdrew.
C13_Witness ==
    /\ \A t \in Teams : initial_purse[t] = 12000
    /\ \E k \in DOMAIN auction_history :
           LET log == auction_history[k].bidding_history
           IN  /\ first_withdrawal(log) > 6
               /\ first_withdrawal(log) <= Len(log)
               /\ bidders_of(SubSeq(log, 1, 6)) = {team_name[t] : t \in Teams}

\* C14: a Sold record has an Active event in its bid log, its winning team
\* is the team of the last Active event and its final price is the amount of
\* that event.
C14_SoldToLastActiveBid ==
    \A k \in DOMAIN auction_history :
        auction_history[k].status = "Sold" =>
            LET active == active_events(auction_history[k].bidding_history)
            IN  /\ active # <<>>
                /\ auction_history[k].winning_team = active[Len(active)].team
                /\ auction_history[k].final_price = active[Len(active)].bid_amount

\* A Sold record whose bid log has Active events of both teams and ends with
\* a Withdrew event.
C14_Witness ==
    \E k \in DOMAIN auction_history :
        LET log == auction_history[k].bidding_history
        IN  /\ auction_history[k].status = "Sold"
            /\ bidders_of(active_events(log)) = {team_name[t] : t \in Teams}
            /\ log[Len(log)].status = "Withdrew"

\* No team passes the filter for the player that comes up: for every team the
\* purse is below the base price or the capabilities rule the player out.
no_team_passes_filter ==
    /\ pc = "loop"
    /\ idx <= Len(sorted_players)
    /\ \A t \in Teams :
           \/ team_purse[t] < player.base_price
           \/ ~can_accommodate(team_capabilities[t], player)

\* C15: when no team passes the filter for the player that comes up, the
\* step appends its record, Unsold with an empty bid log and without price
\* and winner, changes no purse, roster or sold_players entry, and goes on to
\* the next player without a valuation, whatever the player's category is.
C15_NoEligibleTeamSkipsBidding ==
    [][no_team_passes_filter
        => /\ record_appended
           /\ new_record.player_name = player.name
           /\ new_record.status = "Unsold"
           /\ new_record.bidding_history = <<>>
           /\ new_record.final_price = NoPrice
           /\ new_record.winning_team = None
           /\ team_purse' = team_purse
           /\ team_players' = team_players
           /\ sold_players' = sold_players
           /\ idx' = idx + 1
           /\ pc' = "loop"]_vars

\* A player of a category without a configured range was skipped: every
\* team is too poor for it.
C15_Witness ==
    /\ pc = "loop"
    /\ Len(auction_history) >= 1
    /\ LET last == auction_history[Len(auction_history)]
       IN  /\ last.bidding_history = <<>>
           /\ last.status = "Unsold"
           /\ last.category \notin DOMAIN required_roles
    /\ \A t \in Teams : team_purse[t] < 30

\* The place of a player's group in the processing order: the position of
\* its set in set_order, or one past the end for any other set.
group_of(p) ==
    IF \E i \in DOMAIN set_order : set_order[i] = p.set_2025
    THEN CHOOSE i \in DOMAIN set_order : set_order[i] = p.set_2025
    ELSE Len(set_order) + 1

\* p may stand before q in the processing order.
in_order(p, q) ==
    \/ group_of(p) < group_of(q)
    \/ /\ group_of(p) = group_of(q)
       /\ \/ p.base_price > q.base_price
          \/ p.base_price = q.base_price /\ p.ipl_seasons >= q.ipl_seasons

\* C16: once sorted, the processing order has every input player exactly
\* once, grouped in the order of set_order with the other sets last, and
\* within a group by descending base price, then descending ipl_seasons; the
\* ledger has its records in this order.
C16_ProcessingOrder ==
    pc # "init" =>
        /\ Len(sorted_players) = Len(players)
        /\ \A i \in DOMAIN players :
               Cardinality({j \in DOMAIN sorted_players :
                               sorted_players[j] = players[i]}) = 1
        /\ \A i, j \in DOMAIN sorted_players :
               i < j => in_order(sorted_players[i], sorted_players[j])
        /\ Len(auction_history) <= Len(sorted_players)
        /\ \A k \in DOMAIN auction_history :
               auction_history[k].player_name = sorted_players[k].name
        /\ pc = "done" => Len(auction_history) = Len(sorted_players)

\* A completed run whose processing order differs from the input order
\* because of the tie-break within the trailing group.
C16_Witness ==
    /\ pc = "done"
    /\ sorted_players # players
    /\ \E i \in DOMAIN sorted_players :
           /\ i < Len(sorted_players)
           /\ group_of(sorted_players[i]) = Len(set_order) + 1
           /\ group_of(sorted_players[i + 1]) = Len(set_order) + 1
           /\ sorted_players[i].base_price = sorted_players[i + 1].base_price
           /\ sorted_players[i].ipl_seasons > sorted_players[i + 1].ipl_seasons

\* This step changes the purse or the roster of some team.
team_state_changed == team_purse' # team_purse \/ team_players' # team_players

\* C17: a step that appends an Unsold record, and any step that appends no
\* record, leaves every purse and roster as it was; a step that appends a
\* Sold record adds the current player to the roster of the winning team,
\* takes the final price off its purse and leaves the other teams as they
\* were.
C17_OnlySaleChangesTeams ==
    [][/\ team_state_changed => (record_appended /\ new_record.status = "Sold")
       /\ (record_appended /\ new_record.status = "Sold") =>
              \E w \in Teams :
                  /\ new_record.winning_team = team_name[w]
                  /\ new_record.player_name = player.name
                  /\ team_players'[w] = Append(team_players[w], player)
                  /\ team_purse'[w] = team_purse[w] - new_record.final_price
                  /\ \A t \in Teams \ {w} :
                         /\ team_players'[t] = team_players[t]
                         /\ team_purse'[t] = team_purse[t]]_vars

\* Both teams bid on a player, one bought it above the base price, and the
\* purse of the other is what it started with.
C17_Witness ==
    \E k \in DOMAIN auction_history :
        LET r == auction_history[k]
        IN  /\ r.status = "Sold"
            /\ r.final_price > r.base_price + get_bid_increment(r.base_price)
            /\ Cardinality(bidders_of(r.bidding_history)) = 2
            /\ \E t \in Teams :
                   /\ team_name[t] # r.winning_team
                   /\ team_purse[t] = initial_purse[t]
                   /\ Len(team_players[t]) = 0

\* C18: a team that is active in the bidding for a player, or has an event
\* in its bid log, passes the filter evaluated on the purse and the roster it
\* has when the player comes up.
C18_AdmittedOnCurrentState ==
    in_bidding =>
        \A t \in Teams :
            (is_active(t) \/ logged_for(t)) =>
                /\ team_purse[t] >= player.base_price
                /\ can_accommodate(calculate_capabilities(team_players[t]), player)

\* C19: a run never stops on a player of an unconfigured category: the
\* KeyError state is not reached.
C19_UnknownCategoryDoesNotAbort == pc # "aborted"

\* C20: in a run that has a team constructed with a negative purse, no player
\* enters processing and the ledger stays empty.
C20_NegativePurseRejected ==
    (\E t \in Teams : initial_purse[t] < 0) =>
        /\ auction_history = <<>>
        /\ ~in_bidding

\* The calls of the callback that tell of a player (not of a new set).
player_calls ==
    {k \in DOMAIN progress_calls : progress_calls[k].message[1] # "Starting Set"}

\* C21: when the callback has been told of a player, the record of that
\* player is in the ledger, and no player is told of twice.
C21_NotifiedAfterProcessing ==
    /\ \A k \in player_calls :
           /\ progress_calls[k].idx + 1 <= Len(auction_history)
           /\ auction_history[progress_calls[k].idx + 1].player_name
                  = progress_calls[k].message[1]
    /\ \A k, j \in player_calls :
           progress_calls[k].idx = progress_calls[j].idx => k = j

\* The largest purse of a team.
max_purse == CHOOSE m \in {team_purse[t] : t \in Teams} :
                 \A t \in Teams : team_purse[t] <= m

\* No raise goes above this: a team raises only from a price within its
\* purse.
price_bound == max_purse + get_bid_increment(max_purse)

\* What is left to do, as numbers compared from left to right: the players
\* still to come, the stage of the current player, and in its bidding the
\* active teams, the room left under price_bound and the turns left in the
\* pass.
work_left ==
    CASE pc = "init" -> <<Len(players) + 1, 0, 0, 0, 0>>
      [] pc = "loop" -> <<Len(sorted_players) + 1 - idx, 3, 0, 0, 0>>
      [] pc = "bidding" ->
             <<Len(sorted_players) + 1 - idx, 2, Len(active_teams),
               price_bound - current_price,
               IF pass_teams = <<>> THEN Len(active_teams) + 1
               ELSE Len(pass_teams)>>
      [] pc = "resolve" -> <<Len(sorted_players) + 1 - idx, 1, 0, 0, 0>>
      [] pc \in {"done", "aborted"} -> <<0, 0, 0, 0, 0>>

\* a comes before b, comparing from left to right.
less_work(a, b) ==
    \E i \in DOMAIN a :
        /\ a[i] < b[i]
        /\ \A j \in 1..(i - 1) : a[j] = b[j]

\* A step can be taken.  At "init" the sort is always possible, and a team
\* whose turn it is raises, withdraws or fails on the category.
step_possible ==
    \/ pc = "init"
    \/ pc = "bidding" /\ pass_teams # <<>>
    \/ ENABLED (SkipPlayer \/ OpenBidding \/ Return \/ NextPass \/ EndBidding
                   \/ NoSale \/ SaleValidationFailed \/ CommitSale)

turn_of(t) ==
    /\ pc = "bidding"
    /\ pass_teams # <<>>
    /\ Head(pass_teams) = t
    /\ player.category \in DOMAIN required_roles

\* With this jitter the max bid of t is at most the current price, or the
\* current price is above its purse.
must_withdraw(t, randomization) ==
    \/ calculate_bid_value(team_purse[t], team_players[t], player, randomization)
           <= current_price
    \/ current_price > team_purse[t]

\* The event logged by this step.
new_event ==
    auction_record'.bidding_history[Len(auction_record'.bidding_history)]

\* No team has an event after its Withdrew event in the same bid log.
silent_after_withdrawal ==
    \A r \in all_records :
        \A k, j \in DOMAIN r.bidding_history :
            (k < j /\ r.bidding_history[k].status = "Withdrew")
                => r.bidding_history[j].team # r.bidding_history[k].team

\* C23: the turn of a team logs one event of that team.  It is a withdrawal
\* only if some jitter gives a max bid at most the current price or the
\* price is above the purse, and always if every jitter does; it is then
\* logged at the current price, the price stays and the team leaves the
\* active teams.  Otherwise it is a raise by the scheduled increment.  A team
\* logs nothing after its withdrawal.
C23_WithdrawsExactlyWhen ==
    /\ []silent_after_withdrawal
    /\ [][\A t \in Teams : turn_of(t) =>
            /\ Len(auction_record'.bidding_history)
                   = Len(auction_record.bidding_history) + 1
            /\ new_event.team = team_name[t]
            /\ new_event.status \in {"Withdrew", "Active"}
            /\ new_event.status = "Withdrew" =>
                   /\ \E r \in Randomization : must_withdraw(t, r)
                   /\ new_event.bid_amount = current_price
                   /\ current_price' = current_price
                   /\ last_bidder' = last_bidder
                   /\ \A k \in DOMAIN active_teams' : active_teams'[k] # t
            /\ new_event.status = "Active" =>
                   /\ \E r \in Randomization : ~must_withdraw(t, r)
                   /\ new_event.bid_amount
                          = current_price + schedule_increment(current_price)
                   /\ current_price' = new_event.bid_amount
                   /\ active_teams' = active_teams
            /\ (\A r \in Randomization : must_withdraw(t, r))
                   => new_event.status = "Withdrew"
            /\ (\A r \in Randomization : ~must_withdraw(t, r))
                   => new_event.status = "Active"]_vars

\* A team withdrew at a price it had the purse for, after a raise of the
\* other team, whatever the jitter: its max bid was the current price.
C23_Witness ==
    /\ in_bidding
    /\ Len(auction_record.bidding_history) >= 2
    /\ LET last == auction_record.bidding_history[Len(auction_record.bidding_history)]
           t == team_called(last.team)
       IN  /\ last.status = "Withdrew"
           /\ last.bid_amount <= team_purse[t]
           /\ \A r \in Randomization :
                  calculate_bid_value(team_purse[t], team_players[t], player, r)
                      = last.bid_amount

\* The players a roster still needs to have the minimum of every role.
total_shortfall(roster) ==
    LET shortfall(role) == Max(0, required_roles[role][1] - role_count(roster, role))
    IN  shortfall("BATTER") + shortfall("BOWLER") + shortfall("ALL-ROUNDER")
            + shortfall("WICKETKEEPER")

\* The free slots of the roster are enough for the minimum of every role.
minimums_reachable(roster) ==
    total_shortfall(roster) <= max_squad_size - Len(roster)

\* C24: no step takes a roster from which the minimum of every role can be
\* reached to one from which it cannot.
C24_MinimumsStayReachable ==
    [][\A t \in Teams :
           minimums_reachable(team_players[t])
               => minimums_reachable(team_players'[t])]_vars

\* A team has bought a player and has exactly as many free slots as its
\* roles still need.
C24_Witness ==
    \E t \in Teams :
        /\ sales_to(t) # {}
        /\ total_shortfall(team_players[t]) = max_squad_size - Len(team_players[t])

\* C25: for every team, every player of a configured category and every
\* jitter, the max bid is at most 40% of the purse of the team.
C25_MaxBidWithinFortyPercent ==
    \A t \in Teams, p \in configured_players, r \in Randomization :
        team_purse[t] >= 0 =>
            5 * calculate_bid_value(team_purse[t], team_players[t], p, r)
                <= 2 * team_purse[t]

C27_BuyerNeverWithdrew ==
    \A k \in DOMAIN auction_history :
        auction_history[k].status = "Sold" =>
            \A j \in DOMAIN auction_history[k].bidding_history :
                auction_history[k].bidding_history[j].status = "Withdrew"
                    => auction_history[k].bidding_history[j].team
                           # auction_history[k].winning_team

\* C28: in every bid log the team of an Active event is not the team of the
\* Active event before it.
C28_NoRaiseAgainstOwnBid ==
    \A r \in all_records :
        LET active == active_events(r.bidding_history)
        IN  \A k \in DOMAIN active :
                k > 1 => active[k].team # active[k - 1].team

\* C29: the amount of an Active event is at most the max bid of the raising
\* team for some jitter, and at most its purse.
C29_RaiseWithinMaxBidAndPurse ==
    [][\A t \in Teams :
           (turn_of(t) /\ new_event.status = "Active") =>
               /\ \E r \in Randomization :
                      new_event.bid_amount
                          <= calculate_bid_value(team_purse[t], team_players[t],
                                                 player, r)
               /\ new_event.bid_amount <= team_purse[t]]_vars

\* C30: the final price of a Sold record is at most 40% of the purse the
\* winning team had before the debit.
C30_SalePriceWithinFortyPercent ==
    [][(record_appended /\ new_record.status = "Sold") =>
           5 * new_record.final_price
               <= 2 * team_purse[team_called(new_record.winning_team)]]_vars

\* The teams other than t with an Active event in the log of the current
\* player.
other_active_bidders(t) ==
    {u \in Teams \ {t} :
        \E k \in DOMAIN auction_record.bidding_history :
            /\ auction_record.bidding_history[k].team = team_name[u]
            /\ auction_record.bidding_history[k].status = "Active"}

\* C31: a player is not recorded Unsold on the failed validation of the last
\* bidder when another team that can_bid admits (the teams are as they were
\* when the player came up) has an Active bid in the log.
C31_InvalidLeaderNeverBlocksSale ==
    [][(/\ pc = "resolve"
        /\ sale_attempted
        /\ ~sale_valid(last_bidder, player)
        /\ record_appended
        /\ new_record.status = "Unsold")
           => \A u \in other_active_bidders(last_bidder) :
                  ~can_bid(team_purse[u], team_players[u], player)]_vars

\* Every team was constructed with at most max_overseas players of a
\* nationality other than "India".
starts_within_max_overseas ==
    \A t \in Teams : get_overseas_count(retained_players[t]) <= max_overseas

\* C32: when every team starts with at most max_overseas players of a
\* nationality other than "India", every team has at most max_overseas of them
\* in every state.
C32_OverseasWithinMaximum ==
    starts_within_max_overseas
        => \A t \in Teams : get_overseas_count(team_players[t]) <= max_overseas

\* A team bought its way up to max_overseas, and a later overseas player on
\* whom it bid went unsold.
C32_Witness ==
    /\ starts_within_max_overseas
    /\ \E t \in Teams :
          /\ get_overseas_count(retained_players[t]) < max_overseas
          /\ get_overseas_count(team_players[t]) = max_overseas
          /\ \E k \in DOMAIN auction_history :
                /\ auction_history[k].nationality # "India"
                /\ auction_history[k].status = "Unsold"
                /\ \E j \in DOMAIN auction_history[k].bidding_history :
                      /\ auction_history[k].bidding_history[j].team = team_name[t]
                      /\ auction_history[k].bidding_history[j].status = "Active"

\* The player is in the roster of the team.
in_roster(p, t) == \E i \in DOMAIN team_players[t] : team_players[t][i] = p

\* The ledger holds a Sold record of the player that names the team.
sold_to(p, t) ==
    \E k \in DOMAIN auction_history :
        /\ auction_history[k].player_name = p.name
        /\ auction_history[k].status = "Sold"
        /\ auction_history[k].winning_team = team_name[t]

\* The ledger holds an Unsold record of the player.
recorded_unsold(p) ==
    \E k \in DOMAIN auction_history :
        /\ auction_history[k].player_name = p.name
        /\ auction_history[k].status = "Unsold"

C34_ReserveKeptAfterSale ==
    [][(record_appended /\ new_record.status = "Sold") =>
           LET t == team_called(new_record.winning_team)
               missing == min_squad_size - Len(team_players'[t])
           IN  missing > 0 => team_purse'[t] >= min_cost_per_player * missing]_vars

\* C35: the teams that create_teams() returns after a run have the rosters
\* and the purses of the teams it returned before the run.
C35_CreateTeamsUnaffectedByRun ==
    created_teams # <<>> =>
        \A t \in Teams :
            /\ created_teams[t].players = retained_players[t]
            /\ created_teams[t].purse = initial_purse[t]

\* The calls of the callback that tell of a new set.
set_calls == DOMAIN progress_calls \ player_calls

\* The positions among the players told of so far at which the set_2025 of
\* the player is not that of the player before.
set_changes ==
    {i \in 1..Cardinality(player_calls) :
        i = 1 \/ sorted_players[i].set_2025 # sorted_players[i - 1].set_2025}

\* C36: the set of every record of the ledger is the set_2025 of its player,
\* and the callback is told of a new set once for every change of set_2025 in
\* the order of processing.
C36_RecordCarriesPlayerSet ==
    /\ \A k \in DOMAIN auction_history :
           auction_history[k].set = sorted_players[k].set_2025
    /\ progress_callback =>
           Cardinality(set_calls) = Cardinality(set_changes)

\* C37: when every team starts with at most max_uncapped players without an
\* international cap, every team has at most max_uncapped of them in every
\* state.
C37_UncappedWithinMaximum ==
    (\A t \in Teams : get_uncapped_count(retained_players[t]) <= max_uncapped)
        => \A t \in Teams : get_uncapped_count(team_players[t]) <= max_uncapped

====
